---------------------------- MODULE Spec2Model ----------------------------
(***************************************************************************)
(* Maybe and Outcome of src/src/maybe/index.ts.                            *)
(*                                                                         *)
(* The file holds three module texts one after the other: an earlier copy  *)
(* of the Maybe module (lines 1-91, whose `some` wraps whatever it is      *)
(* given), the Maybe module the tests and the Outcome module import        *)
(* (lines 93-190: it exports `maybe`, which test/maybe.spec.ts:3 imports), *)
(* and the Outcome module (lines 192-344).  Where a name is declared       *)
(* twice the later declaration is the one modelled.                        *)
(*                                                                         *)
(* A library function is an operator returning [ret, calls]: the value it  *)
(* returns and the invocations of caller-supplied functions it made, in    *)
(* order.  One action per exported function performs the whole call on the *)
(* caller's current wrapper value.                                         *)
(***************************************************************************)
EXTENDS Integers, Sequences, FiniteSets, TLC

\* Numbers carried in the model are 0..MaxNum.
MaxNum == 4
\* Longest list of steps handed to pipe.
MaxSteps == 6
\* Longest list of Maybe values handed to coalesce.
MaxMaybes == 3

VARIABLES
    pc,      \* "ready": the caller is about to call; "returned": a call has returned
    chain,   \* which module the caller's current wrapper belongs to
    cur,     \* the caller's current wrapper value (a Maybe or an Outcome)
    op,      \* the exported function called last
    args,    \* its arguments, in order
    ret,     \* the value it returned
    calls    \* the caller-supplied functions it invoked: <<[f, xs]>>, in order

vars == <<pc, chain, cur, op, args, ret, calls>>

(***************************************************************************)
(* JavaScript values: [t, v], t the value's type tag.                      *)
(***************************************************************************)
Undefined == [t |-> "undefined", v |-> 0]
Null == [t |-> "null", v |-> 0]
Num(n) == [t |-> "number", v |-> n]
Str(s) == [t |-> "string", v |-> s]
Err(msg) == [t |-> "error", v |-> msg]
Obj(fields) == [t |-> "object", v |-> fields]
Arr(elements) == [t |-> "array", v |-> elements]
Fn(kind, param) == [t |-> "function", v |-> [k |-> kind, p |-> param]]

\* The typeof operator.
TypeOf(x) ==
    CASE x.t = "null" -> "object"
      [] x.t = "error" -> "object"
      [] x.t = "array" -> "object"
      [] OTHER -> x.t

\* ToBoolean: what `x ? a : b` tests.
Truthy(x) ==
    CASE x.t \in {"undefined", "null"} -> FALSE
      [] x.t = "number" -> x.v # 0
      [] x.t = "string" -> x.v # ""
      [] OTHER -> TRUE

\* a ?? b
Coalescing(a, b) == IF a = Undefined \/ a = Null THEN b ELSE a

\* The i-th parameter of a call made with the argument list xs.
Param(xs, i) == IF Len(xs) >= i THEN xs[i] ELSE Undefined

(***************************************************************************)
(* The Maybe module.                                                       *)
(***************************************************************************)
maybeKind == [none |-> 0, some |-> 1]

none == [kind |-> maybeKind.none, value |-> Undefined]

\* maybe without the null and undefined test.
maybeWrapsAnything(maybeValue) == [kind |-> maybeKind.some, value |-> maybeValue]

maybe(maybeValue) ==
    IF Undefined # maybeValue /\ Null # maybeValue
    THEN [kind |-> maybeKind.some, value |-> maybeValue]
    ELSE none

\* some testing truthiness in place of null and undefined.
someIfTruthy(value) ==
    IF Truthy(value) THEN [kind |-> maybeKind.some, value |-> value] ELSE none

some(value) == maybe(value)

isSome(maybeInstance) == maybeInstance.kind = maybeKind.some

(***************************************************************************)
(* The Outcome module: constructors.                                       *)
(***************************************************************************)
outcomeKind == [failure |-> 0, success |-> 1]

\* createFailure with detail and code taken for one another.
createFailureSwapped(detail, code, error) ==
    Obj([code |-> detail, detail |-> code, maybeError |-> error])

createFailure(detail, code, error) ==
    Obj([code |-> code, detail |-> detail, maybeError |-> error])

\* failure telling a record from a string by typeof ... === 'object'.
failureTypeofObject(xs) ==
    LET detailOrFailure == Param(xs, 1)
        code == Param(xs, 2)
        error == Param(xs, 3)
        failureValue ==
            IF "object" # TypeOf(detailOrFailure)
            THEN createFailure(
                     Coalescing(detailOrFailure, Str("")),
                     Coalescing(code, Str("")),
                     IF Truthy(error) THEN some(error) ELSE none)
            ELSE detailOrFailure
    IN  [kind |-> outcomeKind.failure, value |-> failureValue]

failure(xs) ==
    LET detailOrFailure == Param(xs, 1)
        code == Param(xs, 2)
        error == Param(xs, 3)
        failureValue ==
            IF Undefined = detailOrFailure
               \/ Null = detailOrFailure
               \/ "string" = TypeOf(detailOrFailure)
            THEN createFailure(
                     Coalescing(detailOrFailure, Str("")),
                     Coalescing(code, Str("")),
                     IF Truthy(error) THEN some(error) ELSE none)
            ELSE detailOrFailure
    IN  [kind |-> outcomeKind.failure, value |-> failureValue]

\* success normalizing null and undefined as maybe does.
successNormalizing(successValue) ==
    IF Undefined # successValue /\ Null # successValue
    THEN [kind |-> outcomeKind.success, value |-> successValue]
    ELSE [kind |-> outcomeKind.failure, value |-> createFailure(Str(""), Str(""), none)]

success(successValue) == [kind |-> outcomeKind.success, value |-> successValue]

isSuccess(outcome) == outcome.kind = outcomeKind.success

(***************************************************************************)
(* Caller-supplied functions.  A function value is Fn(kind, param); Call   *)
(* applies it to an argument list.                                         *)
(***************************************************************************)
RECURSIVE Call(_, _)
RECURSIVE flatMap(_, _)
Call(f, xs) ==
    LET x == Param(xs, 1)
        k == f.v.k
    IN  CASE k = "const" -> f.v.p                       \* () => p
          [] k = "identity" -> x                        \* x => x
          [] k = "next" ->                              \* n => (n + 1) % (MaxNum + 1)
                IF x.t = "number" THEN Num((x.v + 1) % (MaxNum + 1)) ELSE Undefined
          [] k = "double" ->                            \* n => (n * 2) % (MaxNum + 1)
                IF x.t = "number" THEN Num((x.v * 2) % (MaxNum + 1)) ELSE Undefined
          [] k = "code" ->                              \* f => f.code
                IF x.t = "object" THEN x.v.code ELSE Undefined
          [] k = "some" -> some(Call(f.v.p, xs))        \* x => some(p(x))
          [] k = "none" -> none                         \* () => none
          [] k = "success" -> success(Call(f.v.p, xs))  \* x => success(p(x))
          [] k = "failure" -> failure(f.v.p)            \* () => failure(...p)
          [] k = "append" -> Arr(f.v.p.v \o <<x>>)      \* x => [...p, x]
          [] k = "bind" ->                              \* x => flatMap(p[1](x), p[2])
                flatMap(Call(f.v.p[1], xs), f.v.p[2]).ret

\* Values a Maybe or a Success is built from and mappers return.
Values == {Undefined, Null, Str("")} \cup {Num(n) : n \in 0..MaxNum}

\* Mappers to plain values: (inner) => TNext.
Mappers ==
    {Fn("const", c) : c \in Values}
    \cup {Fn("identity", Undefined), Fn("next", Undefined), Fn("double", Undefined)}

\* Mappers of the Maybe flatMap: (inner) => Maybe<TNext>.
MaybeMappers == {Fn("none", Undefined)} \cup {Fn("some", g) : g \in Mappers}

\* Mappers that themselves call flatMap: x => flatMap(f(x), g).
BoundMappers == {Fn("bind", <<f, g>>) : f \in MaybeMappers, g \in MaybeMappers}

\* Every Maybe the constructors build.
Maybes == {maybe(v) : v \in Values}

\* Handlers of the Maybe match: onNone is a value or a function of no argument.
Sentinel == Str("SENTINEL")
OnNones ==
    Values \cup {Sentinel}
    \cup {Fn("const", c) : c \in {Undefined, Num(0), Sentinel}}

\* Argument lists of failure: none, one, two or three arguments.
AnError == Err("Failure")
FailureRecords ==
    {Obj([code |-> Str("code"), detail |-> Str("detail"), maybeError |-> some(AnError)]),
     Obj([code |-> Str("VALIDATION"), detail |-> Str("name required"),
          maybeError |-> none, errors |-> Str("required")])}
Details == {Undefined, Null, Str(""), Str("detail")} \cup FailureRecords
Codes == {Undefined, Str(""), Str("code")}
Errors == {Undefined, AnError}
FailureArgs ==
    {<<>>}
    \cup {<<d>> : d \in Details}
    \cup {<<d, c>> : d \in Details, c \in Codes}
    \cup {<<d, c, e>> : d \in Details, c \in Codes, e \in Errors}

\* Mappers of the Outcome flatMap: (inner) => Outcome<TNext>.
FailDC == Fn("failure", <<Str("detail"), Str("code")>>)
FailEmpty == Fn("failure", <<>>)
OutcomeMappers == {Fn("success", g) : g \in Mappers} \cup {FailDC, FailEmpty}

\* Steps of pipe.
Steps ==
    {Fn("success", Fn("next", Undefined)), Fn("success", Fn("double", Undefined)),
     FailDC, FailEmpty}

\* Handlers of the Outcome match.
OnFailures == {Fn("code", Undefined), Fn("identity", Undefined), Fn("const", Sentinel)}

\* The lists over S of at most n elements.
SeqsUpTo(S, n) == UNION {[1..k -> S] : k \in 0..n}

\* An invocation of a caller-supplied function.
Invocation(f, xs) == [f |-> f, xs |-> xs]

(***************************************************************************)
(* The Maybe module: combinators.                                          *)
(***************************************************************************)
\* flatMap applying the mapper whatever the variant.
flatMapEager(maybeInstance, mapper) ==
    [ret |-> Call(mapper, <<maybeInstance.value>>),
     calls |-> <<Invocation(mapper, <<maybeInstance.value>>)>>]

\* flatMap keeping the mapper's Maybe only when what it carries is truthy.
flatMapDropsFalsy(maybeInstance, mapper) ==
    IF isSome(maybeInstance)
    THEN [ret |-> IF Truthy(Call(mapper, <<maybeInstance.value>>).value)
                  THEN Call(mapper, <<maybeInstance.value>>)
                  ELSE none,
          calls |-> <<Invocation(mapper, <<maybeInstance.value>>)>>]
    ELSE [ret |-> maybeInstance, calls |-> <<>>]

flatMap(maybeInstance, mapper) ==
    IF isSome(maybeInstance)
    THEN [ret |-> Call(mapper, <<maybeInstance.value>>),
          calls |-> <<Invocation(mapper, <<maybeInstance.value>>)>>]
    ELSE [ret |-> maybeInstance, calls |-> <<>>]

\* map building the Some itself instead of calling some.
mapWrapsRaw(maybeInstance, mapper) ==
    IF isSome(maybeInstance)
    THEN [ret |-> [kind |-> maybeKind.some, value |-> Call(mapper, <<maybeInstance.value>>)],
          calls |-> <<Invocation(mapper, <<maybeInstance.value>>)>>]
    ELSE [ret |-> maybeInstance, calls |-> <<>>]

map(maybeInstance, mapper) ==
    IF isSome(maybeInstance)
    THEN [ret |-> some(Call(mapper, <<maybeInstance.value>>)),
          calls |-> <<Invocation(mapper, <<maybeInstance.value>>)>>]
    ELSE [ret |-> maybeInstance, calls |-> <<>>]

\* resolveOnNone without the typeof test.
resolveOnNoneAsIs(onNone) == [ret |-> onNone, calls |-> <<>>]

resolveOnNone(onNone) ==
    IF "function" = TypeOf(onNone)
    THEN [ret |-> Call(onNone, <<>>), calls |-> <<Invocation(onNone, <<>>)>>]
    ELSE [ret |-> onNone, calls |-> <<>>]

match(maybeInstance, onSome, onNone) ==
    IF isSome(maybeInstance)
    THEN [ret |-> Call(onSome, <<maybeInstance.value>>),
          calls |-> <<Invocation(onSome, <<maybeInstance.value>>)>>]
    ELSE resolveOnNone(onNone)

\* appendIfSome starting over from [] on a None.
appendIfSomeResets(array, maybeInstance) ==
    match(maybeInstance, Fn("append", array), Arr(<<>>)).ret

appendIfSome(array, maybeInstance) ==
    match(maybeInstance, Fn("append", array), array).ret

RECURSIVE reduceAppend(_, _)
reduceAppend(maybes, array) ==
    IF maybes = <<>>
    THEN array
    ELSE reduceAppend(Tail(maybes), appendIfSome(array, Head(maybes)))

coalesce(maybes) == reduceAppend(maybes, Arr(<<>>))

(***************************************************************************)
(* The Outcome module: combinators.  Its flatMap, map and match are named   *)
(* flatMapOut, mapOut and matchOut here (the aliases README.md imports     *)
(* them under), the Maybe module's holding the plain names.                *)
(***************************************************************************)
\* flatMap evaluating the mapper before it looks at the variant.
flatMapOutEager(outcome, mapper) ==
    [ret |-> IF isSuccess(outcome) THEN Call(mapper, <<outcome.value>>) ELSE outcome,
     calls |-> <<Invocation(mapper, <<outcome.value>>)>>]

flatMapOut(outcome, mapper) ==
    IF isSuccess(outcome)
    THEN [ret |-> Call(mapper, <<outcome.value>>),
          calls |-> <<Invocation(mapper, <<outcome.value>>)>>]
    ELSE [ret |-> outcome, calls |-> <<>>]

\* map treating a null or undefined result as the Maybe map does.
mapOutNormalizing(outcome, mapper) ==
    IF isSuccess(outcome)
    THEN [ret |-> IF Undefined # Call(mapper, <<outcome.value>>)
                     /\ Null # Call(mapper, <<outcome.value>>)
                  THEN success(Call(mapper, <<outcome.value>>))
                  ELSE failure(<<>>),
          calls |-> <<Invocation(mapper, <<outcome.value>>)>>]
    ELSE [ret |-> outcome, calls |-> <<>>]

\* map evaluating the mapper before it looks at the variant.
mapOutEager(outcome, mapper) ==
    [ret |-> IF isSuccess(outcome)
             THEN success(Call(mapper, <<outcome.value>>))
             ELSE outcome,
     calls |-> <<Invocation(mapper, <<outcome.value>>)>>]

mapOut(outcome, mapper) ==
    IF isSuccess(outcome)
    THEN [ret |-> success(Call(mapper, <<outcome.value>>)),
          calls |-> <<Invocation(mapper, <<outcome.value>>)>>]
    ELSE [ret |-> outcome, calls |-> <<>>]

\* match calling onFailure without the failure record.
matchOutNoPayload(outcome, onSuccess, onFailure) ==
    IF isSuccess(outcome)
    THEN [ret |-> Call(onSuccess, <<outcome.value>>),
          calls |-> <<Invocation(onSuccess, <<outcome.value>>)>>]
    ELSE [ret |-> Call(onFailure, <<>>), calls |-> <<Invocation(onFailure, <<>>)>>]

matchOut(outcome, onSuccess, onFailure) ==
    IF isSuccess(outcome)
    THEN [ret |-> Call(onSuccess, <<outcome.value>>),
          calls |-> <<Invocation(onSuccess, <<outcome.value>>)>>]
    ELSE [ret |-> Call(onFailure, <<outcome.value>>),
          calls |-> <<Invocation(onFailure, <<outcome.value>>)>>]

\* steps.reduceRight(flatMap, outcome): the steps taken last to first.
RECURSIVE reduceRightFlatMap(_, _)
reduceRightFlatMap(steps, acc) ==
    IF steps = <<>>
    THEN acc
    ELSE LET r == flatMapOut(acc.ret, steps[Len(steps)])
         IN  reduceRightFlatMap(SubSeq(steps, 1, Len(steps) - 1),
                                [ret |-> r.ret, calls |-> acc.calls \o r.calls])

\* steps.reduce(flatMap, outcome), the accumulator carrying the invocations so far.
RECURSIVE reduceFlatMap(_, _)
reduceFlatMap(steps, acc) ==
    IF steps = <<>>
    THEN acc
    ELSE LET r == flatMapOut(acc.ret, Head(steps))
         IN  reduceFlatMap(Tail(steps), [ret |-> r.ret, calls |-> acc.calls \o r.calls])

pipe(outcome, steps) == reduceFlatMap(steps, [ret |-> outcome, calls |-> <<>>])

(***************************************************************************)
(* The caller.                                                             *)
(***************************************************************************)
Init ==
    /\ pc = "ready"
    /\ chain = "maybe"
    /\ cur = none
    /\ op = "import"
    /\ args = <<>>
    /\ ret = none
    /\ calls = <<>>

\* A call of an exported function that returns a wrapper the caller goes on with.
Returned(module, name, xs, r) ==
    /\ pc' = "returned"
    /\ chain' = module
    /\ cur' = r.ret
    /\ op' = name
    /\ args' = xs
    /\ ret' = r.ret
    /\ calls' = r.calls

CallSome ==
    /\ pc = "ready"
    /\ \E v \in Values : Returned("maybe", "some", <<v>>, [ret |-> some(v), calls |-> <<>>])

CallMaybe ==
    /\ pc = "ready"
    /\ \E v \in Values : Returned("maybe", "maybe", <<v>>, [ret |-> maybe(v), calls |-> <<>>])

CallMap ==
    /\ pc = "ready"
    /\ chain = "maybe"
    /\ \E f \in Mappers : Returned("maybe", "map", <<cur, f>>, map(cur, f))

CallFlatMap ==
    /\ pc = "ready"
    /\ chain = "maybe"
    /\ \E f \in MaybeMappers \cup BoundMappers :
          Returned("maybe", "flatMap", <<cur, f>>, flatMap(cur, f))

\* A call that eliminates: the caller keeps the wrapper it holds.
Eliminated(name, xs, r) ==
    /\ pc' = "returned"
    /\ op' = name
    /\ args' = xs
    /\ ret' = r.ret
    /\ calls' = r.calls
    /\ UNCHANGED <<chain, cur>>

CallMatch ==
    /\ pc = "ready"
    /\ chain = "maybe"
    /\ \E onSome \in Mappers, onNone \in OnNones :
          Eliminated("match", <<cur, onSome, onNone>>, match(cur, onSome, onNone))

CallCoalesce ==
    /\ pc = "ready"
    /\ chain = "maybe"
    /\ \E maybes \in SeqsUpTo(Maybes, MaxMaybes) :
          Eliminated("coalesce", maybes, [ret |-> coalesce(maybes), calls |-> <<>>])

CallSuccess ==
    /\ pc = "ready"
    /\ \E v \in Values :
          Returned("outcome", "success", <<v>>, [ret |-> success(v), calls |-> <<>>])

CallFailure ==
    /\ pc = "ready"
    /\ \E xs \in FailureArgs :
          Returned("outcome", "failure", xs, [ret |-> failure(xs), calls |-> <<>>])

CallMapOut ==
    /\ pc = "ready"
    /\ chain = "outcome"
    /\ \E f \in Mappers : Returned("outcome", "map", <<cur, f>>, mapOut(cur, f))

CallFlatMapOut ==
    /\ pc = "ready"
    /\ chain = "outcome"
    /\ \E f \in OutcomeMappers :
          Returned("outcome", "flatMap", <<cur, f>>, flatMapOut(cur, f))

CallMatchOut ==
    /\ pc = "ready"
    /\ chain = "outcome"
    /\ \E onSuccess \in Mappers, onFailure \in OnFailures :
          Eliminated("match", <<cur, onSuccess, onFailure>>,
                     matchOut(cur, onSuccess, onFailure))

CallPipe ==
    /\ pc = "ready"
    /\ chain = "outcome"
    /\ \E steps \in SeqsUpTo(Steps, MaxSteps) :
          Returned("outcome", "pipe", <<cur>> \o steps, pipe(cur, steps))

\* The caller goes on to its next call with the wrapper it holds.
Continue ==
    /\ pc = "returned"
    /\ pc' = "ready"
    /\ op' = "import"
    /\ args' = <<>>
    /\ ret' = cur
    /\ calls' = <<>>
    /\ UNCHANGED <<chain, cur>>

Next ==
    \/ CallSome
    \/ CallMaybe
    \/ CallMap
    \/ CallFlatMap
    \/ CallMatch
    \/ CallCoalesce
    \/ CallSuccess
    \/ CallFailure
    \/ CallMapOut
    \/ CallFlatMapOut
    \/ CallMatchOut
    \/ CallPipe
    \/ Continue

Spec == Init /\ [][Next]_vars

(***************************************************************************)
(* Properties.                                                             *)
(***************************************************************************)
Nullish(x) == x = Null \/ x = Undefined
Carries(m, x) == m.kind = 1 /\ m.value = x
Identity == Fn("identity", Undefined)
Done(module, name) == pc = "returned" /\ chain = module /\ op = name

\* C1: some(v) and maybe(v) are None when v is null or undefined and Some
\* carrying v otherwise: match(some(v), x => x, SENTINEL) is SENTINEL for a
\* null or undefined v (the None branch) and v for every other v.
C1_SomeNormalizesNullish ==
    (pc = "returned" /\ op \in {"some", "maybe"}) =>
        LET v == args[1]
            matched == match(ret, Identity, Sentinel).ret
        IN  IF Nullish(v)
            THEN ret.kind = 0 /\ matched = Sentinel
            ELSE Carries(ret, v) /\ matched = v

C1_Witness ==
    /\ Done("maybe", "some")
    /\ args = <<Null>>
    /\ ret.kind = 0

\* C2: in every Maybe reached by some, maybe, map and flatMap calls, whatever
\* the mappers return, a Some never carries null or undefined.
C2_SomeNeverCarriesNullish ==
    chain = "maybe" =>
        /\ (cur.kind = 1 => ~Nullish(cur.value))
        /\ (op \in {"some", "maybe", "map", "flatMap"} /\ ret.kind = 1
                => ~Nullish(ret.value))

C2_Witness ==
    /\ Done("maybe", "map")
    /\ args[1].kind = 1
    /\ Call(args[2], <<args[1].value>>) = Undefined
    /\ cur.kind = 0

\* C3: in pipe(o, s1, ..., sn) the steps are invoked once each, left to
\* right, each on the value the step before it produced, up to and including
\* the first step that returns a Failure; no later step is invoked and pipe
\* returns exactly that Failure.  With o a Failure no step is invoked and
\* pipe returns o.
C3_PipeStopsAtFirstFailure ==
    Done("outcome", "pipe") =>
        LET o == args[1]
            steps == Tail(args)
            n == Len(calls)
            Result(j) == Call(steps[j], calls[j].xs)
        IN  /\ n <= Len(steps)
            /\ \A j \in 1..n : calls[j].f = steps[j]
            /\ o.kind = 0 => n = 0
            /\ n = 0 => ret = o
            /\ o.kind = 1 /\ Len(steps) > 0 => n > 0 /\ calls[1].xs = <<o.value>>
            /\ \A j \in 1..n :
                 IF Result(j).kind = 0
                 THEN j = n /\ ret = Result(j)
                 ELSE IF j < n
                      THEN calls[j + 1].xs = <<Result(j).value>>
                      ELSE j = Len(steps) /\ ret = Result(j)

C3_Witness ==
    /\ Done("outcome", "pipe")
    /\ Len(args) = 4
    /\ args[1].kind = 1
    /\ Len(calls) = 2
    /\ ret = failure(<<Str("detail"), Str("code")>>)

\* C4: a map, flatMap or pipe call on a None returns None, and on a Failure
\* returns that Failure with the identical failure record: no step of a chain
\* leads from absent or failed to present.
C4_AbsenceIsAbsorbing ==
    [][(pc = "ready" /\ pc' = "returned" /\ op' \in {"map", "flatMap", "pipe"}
        /\ cur.kind = 0)
            => cur' = cur]_vars

C4_Witness ==
    /\ Done("outcome", "flatMap")
    /\ args[1].kind = 0
    /\ args[2] = Fn("success", Fn("const", Num(1)))
    /\ cur = args[1]

\* C5: one call of map or flatMap, of Maybe or of Outcome, invokes the
\* mapper exactly once, on the carried value, when the wrapper is Some or
\* Success, and not at all when it is None or Failure.
C5_MapperInvokedAtMostOnce ==
    (pc = "returned" /\ op \in {"map", "flatMap"}) =>
        /\ \A i \in 1..Len(calls) : calls[i].f = args[2]
        /\ Len(calls) = (IF args[1].kind = 1 THEN 1 ELSE 0)

C5_Witness ==
    /\ Done("outcome", "map")
    /\ args[1].kind = 0
    /\ calls = <<>>

\* C6, as the spec has it: map(m, fn) is Some carrying fn(v) when m is
\* Some(v), and None when m is None, for every fn.
C6_MapWrapsResult ==
    Done("maybe", "map") =>
        IF args[1].kind = 1
        THEN Carries(ret, Call(args[2], <<args[1].value>>))
        ELSE ret.kind = 0

\* C6, amended: map(m, fn) is Some carrying fn(v) when m is Some(v) and
\* fn(v) is neither null nor undefined, and None when m is Some(v) and fn(v)
\* is null or undefined, or when m is None.
C6_MapNormalizesResult ==
    Done("maybe", "map") =>
        LET mapped == Call(args[2], <<args[1].value>>)
        IN  IF args[1].kind = 1 /\ ~Nullish(mapped)
            THEN Carries(ret, mapped)
            ELSE ret.kind = 0

C6_Witness ==
    /\ Done("maybe", "map")
    /\ args[1].kind = 1
    /\ args[2] = Fn("const", Null)
    /\ ret.kind = 0

\* C7: failure(detail, code) is a Failure whose record has that detail and
\* code and a cause that matches None; failure(detail, code, error) the same
\* with a cause that matches Some(error); failure() has detail "", code ""
\* and a cause that matches None.
C7_FailureBuildsRecord ==
    Done("outcome", "failure") =>
        LET record == ret.value.v
            cause == match(record.maybeError, Identity, Sentinel).ret
            strings == args[1].t = "string" /\ args[2].t = "string"
            built == DOMAIN record = {"code", "detail", "maybeError"}
        IN  /\ ret.kind = 0
            /\ Len(args) \in {0, 2, 3} /\ (Len(args) = 0 \/ strings) => built
            /\ Len(args) = 0 =>
                 record.detail = Str("") /\ record.code = Str("") /\ cause = Sentinel
            /\ Len(args) = 2 /\ strings =>
                 record.detail = args[1] /\ record.code = args[2] /\ cause = Sentinel
            /\ Len(args) = 3 /\ strings /\ args[3].t = "error" =>
                 record.detail = args[1] /\ record.code = args[2] /\ cause = args[3]

C7_Witness ==
    /\ Done("outcome", "failure")
    /\ args = <<Str("detail"), Str("code"), AnError>>
    /\ ret.value.v.maybeError = [kind |-> 1, value |-> AnError]

\* C8: success(v) is a Success carrying v for every v, null and undefined
\* included: match(success(v), s => s, () => SENTINEL) returns v and does
\* not invoke the failure handler.
C8_SuccessKeepsAnyValue ==
    Done("outcome", "success") =>
        LET matched == matchOut(ret, Identity, Fn("const", Sentinel))
        IN  /\ ret.kind = 1
            /\ ret.value = args[1]
            /\ matched.ret = args[1]
            /\ matched.calls = <<Invocation(Identity, <<args[1]>>)>>

C8_Witness ==
    /\ Done("outcome", "success")
    /\ args = <<Null>>
    /\ ret.kind = 1
    /\ ret.value = Null

\* C9: the Maybe match(m, onSome, onNone) runs one branch: on Some(v) it
\* invokes onSome(v), nothing else, and returns its result; on None it does
\* not invoke onSome and returns onNone() when onNone is a function (invoked
\* once, with no argument) and onNone itself when it is a plain value.
C9_MaybeMatchRunsOneBranch ==
    Done("maybe", "match") =>
        LET m == args[1]
            onSome == args[2]
            onNone == args[3]
        IN  IF m.kind = 1
            THEN /\ calls = <<Invocation(onSome, <<m.value>>)>>
                 /\ ret = Call(onSome, <<m.value>>)
            ELSE IF onNone.t = "function"
                 THEN /\ calls = <<Invocation(onNone, <<>>)>>
                      /\ ret = Call(onNone, <<>>)
                 ELSE /\ calls = <<>>
                      /\ ret = onNone

C9_Witness ==
    /\ Done("maybe", "match")
    /\ args[1].kind = 0
    /\ args[3] = Fn("const", Sentinel)
    /\ ret = Sentinel

\* C10: the Outcome match(o, onSuccess, onFailure) invokes one handler, once:
\* onSuccess on the carried value when o is a Success, onFailure on the
\* failure record when o is a Failure, and returns what the handler returned.
C10_OutcomeMatchRunsOneHandler ==
    Done("outcome", "match") =>
        LET handler == IF args[1].kind = 1 THEN args[2] ELSE args[3]
        IN  /\ calls = <<Invocation(handler, <<args[1].value>>)>>
            /\ ret = Call(handler, <<args[1].value>>)

C10_Witness ==
    /\ Done("outcome", "match")
    /\ args[1].kind = 0
    /\ args[3] = Fn("code", Undefined)
    /\ ret = Str("code")

\* The carried values of the Some entries of a list of Maybe values, in order.
SomeValues(maybes) ==
    LET somes == SelectSeq(maybes, LAMBDA m : m.kind = 1)
    IN  [i \in 1..Len(somes) |-> somes[i].value]

\* C11: coalesce returns the carried values of the Some entries of its
\* arguments, in input order and nothing else: as many elements as there are
\* Some entries, and the empty array for no arguments.
C11_CoalesceKeepsSomesInOrder ==
    Done("maybe", "coalesce") =>
        /\ ret.t = "array"
        /\ ret.v = SomeValues(args)
        /\ Len(ret.v) = Cardinality({i \in 1..Len(args) : args[i].kind = 1})
        /\ args = <<>> => ret.v = <<>>

C11_Witness ==
    /\ Done("maybe", "coalesce")
    /\ Len(args) = 3
    /\ args[1].kind = 1 /\ args[1].value = Num(0)
    /\ args[2].kind = 0
    /\ args[3].kind = 1 /\ args[3].value = Num(3)
    /\ ret = Arr(<<Num(0), Num(3)>>)

\* C12: the Outcome map(o, fn) is a Success carrying fn(v) when o is
\* Success(v), null and undefined results included, and is o itself when o
\* is a Failure.
C12_OutcomeMapWrapsAnyResult ==
    Done("outcome", "map") =>
        IF args[1].kind = 1
        THEN ret.kind = 1 /\ ret.value = Call(args[2], <<args[1].value>>)
        ELSE ret = args[1]

C12_Witness ==
    /\ Done("outcome", "map")
    /\ args[1].kind = 1
    /\ args[2] = Fn("const", Null)
    /\ ret.kind = 1
    /\ ret.value = Null

\* C13: the Maybe flatMap is associative: flatMap(m, x => flatMap(f(x), g))
\* is the same Maybe (variant and carried value) as
\* flatMap(flatMap(m, f), g).
C13_FlatMapAssociative ==
    (Done("maybe", "flatMap") /\ args[2].v.k = "bind") =>
        LET m == args[1]
            f == args[2].v.p[1]
            g == args[2].v.p[2]
        IN  ret = flatMap(flatMap(m, f).ret, g).ret

C13_Witness ==
    /\ Done("maybe", "flatMap")
    /\ args[1].kind = 1
    /\ args[1].value = Num(1)
    /\ args[2] = Fn("bind", <<Fn("some", Fn("next", Undefined)),
                             Fn("some", Fn("double", Undefined))>>)
    /\ ret.kind = 1
    /\ ret.value = Num(4)

\* flatMap(...flatMap(flatMap(o, s1), s2)..., sn), for the first n steps.
RECURSIVE NestedFlatMap(_, _, _)
NestedFlatMap(o, steps, n) ==
    IF n = 0 THEN o ELSE flatMapOut(NestedFlatMap(o, steps, n - 1), steps[n]).ret

\* C14: pipe(o, s1, ..., sn) is flatMap(...flatMap(flatMap(o, s1), s2)..., sn)
\* for every o and every list of steps: o itself for no steps, and, when o
\* and every step succeed, the Success the last step returned.
C14_PipeIsLeftFoldOfFlatMap ==
    Done("outcome", "pipe") =>
        LET o == args[1]
            steps == Tail(args)
            n == Len(steps)
        IN  /\ ret = NestedFlatMap(o, steps, n)
            /\ n = 0 => ret = o
            /\ (n > 0 /\ \A j \in 0..(n - 1) : NestedFlatMap(o, steps, j).kind = 1) =>
                 ret = Call(steps[n], <<NestedFlatMap(o, steps, n - 1).value>>)

C14_Witness ==
    /\ Done("outcome", "pipe")
    /\ args = <<[kind |-> 1, value |-> Num(1)],
                Fn("success", Fn("next", Undefined)),
                Fn("success", Fn("double", Undefined))>>
    /\ ret = [kind |-> 1, value |-> Num(4)]

\* The record failure builds from detail, code and error arguments.
BuiltRecord(detail, code, error) ==
    Obj([code |-> IF Nullish(code) THEN Str("") ELSE code,
         detail |-> IF Nullish(detail) THEN Str("") ELSE detail,
         maybeError |-> IF error.t = "error"
                        THEN [kind |-> 1, value |-> error]
                        ELSE [kind |-> 0, value |-> Undefined]])

\* A pre-built failure record: neither a string nor null nor undefined.
IsRecord(x) == x.t # "string" /\ ~Nullish(x)

\* C15, as the spec has it: called with a single argument that is neither a
\* string nor null nor undefined, failure yields a Failure whose payload is
\* that record, every field unchanged; in every other call shape it builds
\* the record from the detail, code and optional error arguments.
C15_FailureDispatchesOnShape ==
    Done("outcome", "failure") =>
        /\ ret.kind = 0
        /\ IF Len(args) = 1 /\ IsRecord(args[1])
           THEN ret.value = args[1]
           ELSE ret.value = BuiltRecord(Param(args, 1), Param(args, 2), Param(args, 3))

\* C15, amended: failure dispatches on its first argument alone.  When the
\* first argument is neither a string nor null nor undefined, whatever
\* arguments follow it, failure yields a Failure whose payload is that
\* record, every field unchanged; when the first argument is a string, null,
\* undefined or left out, it builds the record from the detail, code and
\* optional error arguments.
C15_FailureDispatchesOnFirstArgument ==
    Done("outcome", "failure") =>
        /\ ret.kind = 0
        /\ IF IsRecord(Param(args, 1))
           THEN ret.value = args[1]
           ELSE ret.value = BuiltRecord(Param(args, 1), Param(args, 2), Param(args, 3))

C15_Witness ==
    /\ Done("outcome", "failure")
    /\ Len(args) = 1
    /\ args[1].t = "object"
    /\ "errors" \in DOMAIN args[1].v
    /\ ret.value = args[1]

=============================================================================
